---- MODULE Spec2Model ----
(***************************************************************************)
(* Worklog reports of jira-assistant.                                      *)
(*                                                                         *)
(* Two entry points are modelled side by side:                             *)
(*   variant "text": src/src/index.ts, getMyWorklogsSince, which prints a  *)
(*                   delimited-text report on the standard output;         *)
(*   variant "doc" : src/unnamed/part_000, getMyWorklogsForPeriod and the  *)
(*                   async entry point that renders its rows to a          *)
(*                   printable document and writes worklog.pdf.            *)
(*                                                                         *)
(* Representation of JavaScript values:                                    *)
(*   - an optional value is a sequence: <<>> when undefined, <<v>> when    *)
(*     present;                                                            *)
(*   - a string is a sequence of characters (a literal the code never      *)
(*     looks into is kept as one symbol);                                  *)
(*   - a number of hours n is the integer 4n (a count of quarter hours):   *)
(*     the durations drawn are multiples of 900 s, for which the double    *)
(*     arithmetic of the code (division by 3600, sums) is exact;           *)
(*   - a started timestamp "YYYY-MM-DDThh:00:00.000+oo00" is the record    *)
(*     [day, hour, offset]; instants are counted in hours.                 *)
(***************************************************************************)
EXTENDS Integers, Sequences, FiniteSets, TLC

VARIABLES
  variant,            \* which entry point runs: "text" or "doc"
  mode,               \* WorklogMode: "Detailed" or "DailySummary"
  fromDate,           \* date / fromDate: an instant (hours), UTC midnight
  toDate,             \* toDate (doc variant), an instant; the text variant has none
  pc,                 \* where the run stands
  issues,             \* issuesSearchResponse.issues (optional)
  fetchState,         \* per issue: "queued", "pending", "ok", "failed"
  throttleReady,      \* the throttle lets the next queued fetch start
  worklogsPerIssue,   \* the value of each resolved fetch promise
  worklogs,           \* the normalized, sorted entries
  entries,            \* the row matrix returned by getMyWorklogsForPeriod (optional)
  stdout,             \* rows printed by the text variant
  stderr,             \* number of errors logged by console.error
  file,               \* worklog.pdf: the rows of the document written (optional)
  currentDate,        \* period selection: new Date() at invocation (local y/m/d)
  tzOffset,           \* period selection: the machine's offset from UTC, hours
  firstDayOfCurrentMonth,
  firstDayOfPreviousMonth,
  reportDateStart,
  reportDateEnd,
  worklogDateRange    \* the two date texts put in the search query

vars == <<variant, mode, fromDate, toDate, pc, issues, fetchState, throttleReady,
          worklogsPerIssue, worklogs, entries, stdout, stderr, file,
          currentDate, tzOffset, firstDayOfCurrentMonth, firstDayOfPreviousMonth,
          reportDateStart, reportDateEnd, worklogDateRange>>

pipelineVars == <<variant, mode, fromDate, toDate, pc, issues, fetchState,
                  throttleReady, worklogsPerIssue, worklogs, entries, stdout,
                  stderr, file>>

periodVars == <<currentDate, tzOffset, firstDayOfCurrentMonth,
                firstDayOfPreviousMonth, reportDateStart, reportDateEnd,
                worklogDateRange>>

(***************************************************************************)
(* Bounds of the model.                                                    *)
(***************************************************************************)
MaxIssues == 2      \* issues in a search result
MaxWorklogs == 3    \* raw worklog records over all responses of a run
MaxYears == 2       \* years of invocation explored by the period selection

(***************************************************************************)
(* Optional values.                                                        *)
(***************************************************************************)
Absent == <<>>
Some(v) == <<v>>

(***************************************************************************)
(* Generic sequence helpers.                                               *)
(***************************************************************************)
RECURSIVE SumSeq(_)
SumSeq(s) == IF s = <<>> THEN 0 ELSE s[1] + SumSeq(Tail(s))

RECURSIVE Flat(_)
Flat(ss) == IF ss = <<>> THEN <<>> ELSE ss[1] \o Flat(Tail(ss))

Contains(s, x) == \E i \in 1..Len(s) : s[i] = x

SeqsUpTo(S, n) == UNION { [1..k -> S] : k \in 0..n }

(***************************************************************************)
(* Strings and numbers.                                                    *)
(***************************************************************************)
DigitChars == <<"0", "1", "2", "3", "4", "5", "6", "7", "8", "9">>

DigitValue(c) == CHOOSE n \in 0..9 : DigitChars[n + 1] = c

IsDigit(c) == \E n \in 0..9 : DigitChars[n + 1] = c

RECURSIVE NatToString(_)
NatToString(n) ==
  IF n < 10 THEN <<DigitChars[n + 1]>>
  ELSE NatToString(n \div 10) \o <<DigitChars[(n % 10) + 1]>>

\* The decimal digits Number.prototype.toString prints after the integer
\* part of q/4.
FractionChars(r) ==
  CASE r = 0 -> <<>>
    [] r = 1 -> <<".", "2", "5">>
    [] r = 2 -> <<".", "5">>
    [] r = 3 -> <<".", "7", "5">>

\* Number.prototype.toString of the number of hours q/4, q >= 0.
NumberToString(q) == NatToString(q \div 4) \o FractionChars(q % 4)

\* String.prototype.replace(a, b) with a string pattern: the first
\* occurrence only.
RECURSIVE ReplaceFirst(_, _, _)
ReplaceFirst(s, a, b) ==
  IF s = <<>> THEN <<>>
  ELSE IF s[1] = a THEN <<b>> \o Tail(s)
  ELSE <<s[1]>> \o ReplaceFirst(Tail(s), a, b)

\* JavaScript values that end up in a cell of a row.
Str(chars) == [type |-> "string", chars |-> chars, value |-> 0]
Num(q) == [type |-> "number", chars |-> <<>>, value |-> q]
Undefined == [type |-> "undefined", chars |-> <<>>, value |-> 0]

(***************************************************************************)
(* Configuration.                                                          *)
(***************************************************************************)
email == "me@example.org"
otherEmail == "other@example.org"

SecondsPerHour == 3600

(***************************************************************************)
(* Started timestamps.                                                     *)
(***************************************************************************)
\* +new Date(started): the instant the text denotes, in hours.
Instant(started) == started.day * 24 + started.hour - started.offset

TwoDigits(n) == IF n < 10 THEN <<"0">> \o NatToString(n) ELSE NatToString(n)

\* started.split('T')[0]: the text before 'T', the date as written with the
\* offset of the timestamp.
DateString(started) == <<"2023-02-">> \o TwoDigits(started.day)

\* date.toJSON().split('T')[0] of an instant: its UTC date. The result is
\* the day number, which the query text embeds.
ToJSONDate(instant) == instant \div 24

(***************************************************************************)
(* extractTextFromJiraDocumentNode                                         *)
(***************************************************************************)
RECURSIVE extractTextFromJiraDocumentNode(_)
extractTextFromJiraDocumentNode(documentNode) ==
  LET content == IF documentNode.content = Absent THEN <<>>
                 ELSE documentNode.content[1]
      contentsText ==
        Flat([i \in 1..Len(content) |->
                extractTextFromJiraDocumentNode(content[i])])
      innerText == IF documentNode.text = Absent THEN <<>>
                   ELSE documentNode.text[1]
  IN contentsText \o innerText

(***************************************************************************)
(* Issues and the identifier-to-issue map.                                 *)
(***************************************************************************)
Issue(i) == [id |-> NatToString(10000 + i), key |-> <<"K", "-">> \o NatToString(i)]

UnknownIssueId == NatToString(99999)

\* issueByIdMap.get(id): the issue of the search result with this id.
IssueById(issueList, id) ==
  IF \E i \in 1..Len(issueList) : issueList[i].id = id
  THEN Some(issueList[CHOOSE i \in 1..Len(issueList) :
                        /\ issueList[i].id = id
                        /\ \A j \in (i + 1)..Len(issueList) : issueList[j].id # id])
  ELSE Absent

(***************************************************************************)
(* Normalization: filter by author, map to entries, sort by instant.       *)
(***************************************************************************)
\* worklog.author?.emailAddress
AuthorEmail(worklog) ==
  IF worklog.author = Absent THEN Absent ELSE worklog.author[1].emailAddress

\* Mutant of IsMine: the filter keeps the records of every author.
AnyAuthor(worklog) == TRUE

IsMine(worklog) == AuthorEmail(worklog) = Some(email)

RECURSIVE FilterMine(_)
FilterMine(ws) ==
  IF ws = <<>> THEN <<>>
  ELSE IF IsMine(ws[1]) THEN <<ws[1]>> \o FilterMine(Tail(ws))
  ELSE FilterMine(Tail(ws))

\* (worklog.timeSpentSeconds ?? 0) / 3600, as a count of quarter hours.
TimeSpentInHours(worklog) ==
  LET seconds == IF worklog.timeSpentSeconds = Absent THEN 0
                 ELSE worklog.timeSpentSeconds[1]
  IN (seconds * 4) \div SecondsPerHour

\* The comment of an entry. index.ts: worklog.comment && extract(...);
\* part_000 adds ?? ''.
CommentOf(v, worklog) ==
  IF worklog.comment = Absent
  THEN IF v = "text" THEN Undefined ELSE Str(<<>>)
  ELSE Str(extractTextFromJiraDocumentNode(worklog.comment[1]))

\* issueByIdMap.get(worklog.issueId!)!.key throws when the id is unknown.
Resolves(issueList, worklog) == IssueById(issueList, worklog.issueId) # Absent

ToEntry(v, issueList, worklog) ==
  [started |-> worklog.started,
   issue |-> IssueById(issueList, worklog.issueId)[1].key,
   timeSpentInHours |-> TimeSpentInHours(worklog),
   comment |-> CommentOf(v, worklog)]

\* The comparator of the sort.
CompareStarted(worklogA, worklogB) ==
  Instant(worklogA.started) - Instant(worklogB.started)

\* Array.prototype.sort with CompareStarted: a stable sort.
RECURSIVE InsertSorted(_, _)
InsertSorted(sorted, x) ==
  IF sorted = <<>> THEN <<x>>
  ELSE IF CompareStarted(sorted[Len(sorted)], x) <= 0 THEN Append(sorted, x)
  ELSE Append(InsertSorted(SubSeq(sorted, 1, Len(sorted) - 1), x),
              sorted[Len(sorted)])

\* Mutant of SortByStarted: the entries are left in the order of arrival.
Unsorted(s) == s

RECURSIVE SortByStarted(_)
SortByStarted(s) ==
  IF s = <<>> THEN <<>>
  ELSE InsertSorted(SortByStarted(SubSeq(s, 1, Len(s) - 1)), s[Len(s)])

\* The records retained over all responses, in the order of the issues.
Retained(responses) ==
  Flat([i \in 1..Len(responses) |-> FilterMine(responses[i])])

\* The flatMap throws as soon as a retained record does not resolve.
NormalizeThrows(issueList, responses) ==
  \E i \in 1..Len(Retained(responses)) :
    ~Resolves(issueList, Retained(responses)[i])

Normalize(v, issueList, responses) ==
  LET retained == Retained(responses)
  IN SortByStarted([i \in 1..Len(retained) |-> ToEntry(v, issueList, retained[i])])

(***************************************************************************)
(* Aggregation.                                                            *)
(***************************************************************************)
\* number.toString().replace('.', ',')
HoursWithComma(q) == ReplaceFirst(NumberToString(q), ".", ",")

\* Mutant of SumHours: reduce without its initial value, the first entry
\* taken as the start and its hours lost.
SumHoursNoInitial(ws) ==
  SumSeq([i \in 1..Len(ws) |-> IF i = 1 THEN 0 ELSE ws[i].timeSpentInHours])

\* worklogs.reduce((sum, worklog) => sum + worklog.timeSpentInHours, 0)
RECURSIVE SumHours(_)
SumHours(ws) ==
  IF ws = <<>> THEN 0
  ELSE SumHours(SubSeq(ws, 1, Len(ws) - 1)) + ws[Len(ws)].timeSpentInHours

DetailedRow(worklog) ==
  <<Str(DateString(worklog.started)),
    Str(worklog.issue),
    Str(HoursWithComma(worklog.timeSpentInHours)),
    worklog.comment>>

HasDay(dailyWorklogs, day) ==
  \E i \in 1..Len(dailyWorklogs) : dailyWorklogs[i].day = day

\* Mutant of DailyStep: the hours of the day are overwritten, not added.
DailyStepOverwrite(dailyWorklogs, worklog) ==
  LET day == DateString(worklog.started)
      withDay == IF HasDay(dailyWorklogs, day) THEN dailyWorklogs
                 ELSE Append(dailyWorklogs,
                             [day |-> day, timeSpentInHours |-> 0, issues |-> <<>>])
      at == CHOOSE i \in 1..Len(withDay) : withDay[i].day = day
  IN [withDay EXCEPT ![at] =
        [day |-> day,
         timeSpentInHours |-> worklog.timeSpentInHours,
         issues |-> IF Contains(@.issues, worklog.issue) THEN @.issues
                    ELSE Append(@.issues, worklog.issue)]]

\* One step of the reduce over the insertion-ordered Map.
DailyStep(dailyWorklogs, worklog) ==
  LET day == DateString(worklog.started)
      withDay == IF HasDay(dailyWorklogs, day) THEN dailyWorklogs
                 ELSE Append(dailyWorklogs,
                             [day |-> day, timeSpentInHours |-> 0, issues |-> <<>>])
      at == CHOOSE i \in 1..Len(withDay) : withDay[i].day = day
  IN [withDay EXCEPT ![at] =
        [day |-> day,
         timeSpentInHours |-> @.timeSpentInHours + worklog.timeSpentInHours,
         issues |-> IF Contains(@.issues, worklog.issue) THEN @.issues
                    ELSE Append(@.issues, worklog.issue)]]

RECURSIVE DailyFold(_, _)
DailyFold(dailyWorklogs, ws) ==
  IF ws = <<>> THEN dailyWorklogs
  ELSE DailyFold(DailyStep(dailyWorklogs, ws[1]), Tail(ws))

\* issues.join(', ')
RECURSIVE Join(_)
Join(keys) ==
  IF keys = <<>> THEN <<>>
  ELSE IF Len(keys) = 1 THEN keys[1]
  ELSE keys[1] \o <<", ">> \o Join(Tail(keys))

DailyRow(dailySummary) ==
  <<Str(dailySummary.day), Num(dailySummary.timeSpentInHours),
    Str(Join(dailySummary.issues))>>

DailyRows(ws) ==
  LET dailyWorklogs == DailyFold(<<>>, ws)
  IN [i \in 1..Len(dailyWorklogs) |-> DailyRow(dailyWorklogs[i])]

DetailedRows(ws) == [i \in 1..Len(ws) |-> DetailedRow(ws[i])]

Lit(text) == Str(<<text>>)

\* What index.ts prints: the header line, then the rows given to stringify.
TextReport(m, ws) ==
  IF m = "Detailed"
  THEN <<<<Lit("Date"), Lit("Issue"), Lit("Hours spent"), Lit("Comment")>>>>
       \o DetailedRows(ws)
  ELSE <<<<Lit("Date"), Lit("Hours"), Lit("Issues")>>>> \o DailyRows(ws)

\* What getMyWorklogsForPeriod returns when the search gave an issue list.
DocReport(m, ws) ==
  LET hoursSum == Str(HoursWithComma(SumHours(ws)))
  IN IF m = "Detailed"
     THEN <<<<Lit("Date"), Lit("Issue"), Lit("Hours spent"), Lit("Comment")>>>>
          \o DetailedRows(ws)
          \o <<<<Lit("Total"), Str(<<>>), hoursSum, Str(<<>>)>>>>
     ELSE <<<<Lit("Date"), Lit("Hours spent"), Lit("Issues")>>>>
          \o DailyRows(ws)
          \o <<<<Lit("Total"), hoursSum, Str(<<>>)>>>>

(***************************************************************************)
(* Rendering of the document.                                              *)
(***************************************************************************)
\* String(cell)
ToStringChars(cell) ==
  CASE cell.type = "string" -> cell.chars
    [] cell.type = "number" -> NumberToString(cell.value)
    [] cell.type = "undefined" -> <<"undefined">>

\* escape of html-escaper, character by character.
EscapeChar(c) ==
  CASE c = "&" -> "&amp;"
    [] c = "<" -> "&lt;"
    [] c = ">" -> "&gt;"
    [] c = "'" -> "&#39;"
    [] c = "\"" -> "&quot;"
    [] OTHER -> c

escape(chars) == [i \in 1..Len(chars) |-> EscapeChar(chars[i])]

\* The table of the document: per row, th cells for row 0 and td cells after.
RenderTable(rows) ==
  [r \in 1..Len(rows) |->
     [tag |-> IF r = 1 THEN "th" ELSE "td",
      cells |-> [c \in 1..Len(rows[r]) |-> escape(ToStringChars(rows[r][c]))]]]

(***************************************************************************)
(* What the remote service can answer.                                     *)
(***************************************************************************)
Leaf(t) == [text |-> Some(<<t>>), content |-> Absent]

\* Comment documents: a leaf, a container with text of its own, and a
\* nested container without text.
CommentTrees ==
  { Leaf("a"),
    [text |-> Some(<<"c">>), content |-> Some(<<Leaf("a"), Leaf("b")>>)],
    [text |-> Absent,
     content |-> Some(<<[text |-> Some(<<"p">>), content |-> Some(<<Leaf("a")>>)],
                        Leaf("<")>>)] }

Me == Some([emailAddress |-> Some(email)])

Authors ==
  { Absent,
    Some([emailAddress |-> Absent]),
    Some([emailAddress |-> Some(otherEmail)]),
    Me }

\* The days on which a worklog can start.
Days == 1..2

\* Started timestamps: a day, and 01:00 at +03:00 or 23:00 at UTC.
Starteds ==
  { [day |-> d, hour |-> t[1], offset |-> t[2]] :
      d \in Days, t \in {<<1, 3>>, <<23, 0>>} }

\* A record of the user on issue i, started on the day of from at 23:00 UTC,
\* a quarter of an hour long, without comment.
PlainRecord(i, from) ==
  [issueId |-> Issue(i).id,
   author |-> Me,
   started |-> [day |-> ToJSONDate(from), hour |-> 23, offset |-> 0],
   timeSpentSeconds |-> Some(900),
   comment |-> Absent]

\* The records the service may return for issue i of the search result with
\* startedAfter = from. Each family varies some fields of the plain record:
\* when the worklog started and how long it took (and one record of another
\* author),
TimedRecords(i, from) ==
  { [PlainRecord(i, from) EXCEPT !.started = s] :
      s \in {x \in Starteds : Instant(x) >= from} }
  \cup { [PlainRecord(i, from) EXCEPT !.timeSpentSeconds = Some(5400)] }
  \cup { [PlainRecord(i, from) EXCEPT !.author = Some([emailAddress |-> Some(otherEmail)]),
                                      !.timeSpentSeconds = Some(1800)] }

\* who wrote it and which issue it names,
AuthoredRecords(i, from) ==
  { [PlainRecord(i, from) EXCEPT !.author = a] : a \in Authors }
  \cup { [PlainRecord(i, from) EXCEPT !.author = a, !.issueId = UnknownIssueId] :
           a \in {Me, Some([emailAddress |-> Some(otherEmail)])} }

\* and its optional fields: the comment and the duration.
CommentedRecords(i, from) ==
  { PlainRecord(i, from) }
  \cup { [PlainRecord(i, from) EXCEPT !.comment = Some(c)] : c \in CommentTrees }
  \cup { [PlainRecord(i, from) EXCEPT !.timeSpentSeconds = Absent] }

\* Records received so far.
Received(responses) == SumSeq([i \in 1..Len(responses) |-> Len(responses[i])])

(***************************************************************************)
(* The run of a report.                                                    *)
(***************************************************************************)
NoDate == [year |-> 0, month |-> 0, date |-> 0]

PeriodIdle ==
  /\ currentDate = NoDate
  /\ tzOffset = 0
  /\ firstDayOfCurrentMonth = NoDate
  /\ firstDayOfPreviousMonth = NoDate
  /\ reportDateStart = NoDate
  /\ reportDateEnd = NoDate
  /\ worklogDateRange = <<>>

Init ==
  /\ variant \in {"text", "doc"}
  /\ mode \in {"Detailed", "DailySummary"}
  /\ fromDate = 24
  /\ toDate \in IF variant = "text" THEN {Absent}
                ELSE {Some(24 * d) : d \in Days}
  /\ pc = "search"
  /\ issues = Absent
  /\ fetchState = <<>>
  /\ throttleReady = TRUE
  /\ worklogsPerIssue = <<>>
  /\ worklogs = <<>>
  /\ entries = Absent
  /\ stdout = <<>>
  /\ stderr = 0
  /\ file = Absent
  /\ PeriodIdle

\* Mutant of AfterFetch: the text variant prints its header line before it
\* normalizes the records.
AfterFetchHeaderFirst(issueList, responses) ==
  IF NormalizeThrows(issueList, responses)
  THEN /\ pc' = "failed"
       /\ stderr' = stderr + 1
       /\ stdout' = IF variant = "text" THEN TextReport(mode, <<>>) ELSE stdout
       /\ UNCHANGED <<worklogs, entries>>
  ELSE /\ worklogs' = Normalize(variant, issueList, responses)
       /\ IF variant = "text"
          THEN /\ stdout' = TextReport(mode, worklogs')
               /\ pc' = "done"
               /\ UNCHANGED entries
          ELSE /\ entries' = Some(DocReport(mode, worklogs'))
               /\ pc' = "pdf"
               /\ UNCHANGED stdout
       /\ UNCHANGED stderr

\* The synchronous rest of the function once Promise.all has resolved with
\* responses: normalization, then the report; in the doc variant the entry
\* point then hands the rendered rows to generatePdf.
AfterFetch(issueList, responses) ==
  IF NormalizeThrows(issueList, responses)
  THEN /\ pc' = "failed"
       /\ stderr' = stderr + 1
       /\ UNCHANGED <<worklogs, entries, stdout>>
  ELSE /\ worklogs' = Normalize(variant, issueList, responses)
       /\ IF variant = "text"
          THEN /\ stdout' = TextReport(mode, worklogs')
               /\ pc' = "done"
               /\ UNCHANGED entries
          ELSE /\ entries' = Some(DocReport(mode, worklogs'))
               /\ pc' = "pdf"
               /\ UNCHANGED stdout
       /\ UNCHANGED stderr

\* The issue search resolves: with no issue list the function returns at
\* once, with an empty list Promise.all resolves at once.
SearchResolve ==
  /\ pc = "search"
  /\ \E result \in {Absent} \cup {Some([i \in 1..n |-> Issue(i)]) : n \in 0..MaxIssues} :
       /\ issues' = result
       /\ IF result = Absent
          THEN /\ IF variant = "text"
                  THEN pc' = "done" /\ UNCHANGED entries
                  ELSE pc' = "pdf" /\ entries' = Some(<<>>)
               /\ UNCHANGED <<fetchState, worklogsPerIssue, worklogs, stdout, stderr>>
          ELSE /\ fetchState' = [i \in 1..Len(result[1]) |-> "queued"]
               /\ worklogsPerIssue' = [i \in 1..Len(result[1]) |-> <<>>]
               /\ IF result[1] = <<>>
                  THEN AfterFetch(<<>>, <<>>)
                  ELSE /\ pc' = "fetch"
                       /\ UNCHANGED <<worklogs, entries, stdout, stderr>>
  /\ UNCHANGED <<variant, mode, fromDate, toDate, throttleReady, file>>
  /\ UNCHANGED periodVars

\* The issue search fails: the rejection is not handled.
SearchReject ==
  /\ pc = "search"
  /\ pc' = "failed"
  /\ stderr' = stderr + 1
  /\ UNCHANGED <<variant, mode, fromDate, toDate, issues, fetchState, throttleReady,
                 worklogsPerIssue, worklogs, entries, stdout, file>>
  /\ UNCHANGED periodVars

\* The throttle starts the fetch at the head of its queue.
FetchStart(i) ==
  /\ fetchState[i] = "queued"
  /\ \A j \in 1..(i - 1) : fetchState[j] # "queued"
  /\ throttleReady
  /\ fetchState' = [fetchState EXCEPT ![i] = "pending"]
  /\ throttleReady' = FALSE
  /\ UNCHANGED <<variant, mode, fromDate, toDate, pc, issues, worklogsPerIssue,
                 worklogs, entries, stdout, stderr, file>>
  /\ UNCHANGED periodVars

\* A third of a second has passed since the last start.
IntervalElapsed ==
  /\ ~throttleReady
  /\ \E i \in 1..Len(fetchState) : fetchState[i] = "queued"
  /\ throttleReady' = TRUE
  /\ UNCHANGED <<variant, mode, fromDate, toDate, pc, issues, fetchState,
                 worklogsPerIssue, worklogs, entries, stdout, stderr, file>>
  /\ UNCHANGED periodVars

\* Mutant of AllOk: the join goes on with the first fetch that resolves.
AnyOk(states) == \E j \in 1..Len(states) : states[j] = "ok"

AllOk(states) == \A j \in 1..Len(states) : states[j] = "ok"

\* A fetch resolves. Promise.all resolves with the last of them, and the
\* function goes on in the same turn. Once Promise.all has rejected nothing
\* reads the value.
FetchResolve(i, records) ==
  /\ fetchState[i] = "pending"
  /\ fetchState' = [fetchState EXCEPT ![i] = "ok"]
  /\ IF pc = "fetch"
     THEN \E response \in SeqsUpTo(records,
                                   MaxWorklogs - Received(worklogsPerIssue)) :
            /\ worklogsPerIssue' = [worklogsPerIssue EXCEPT ![i] = response]
            /\ IF AllOk(fetchState')
               THEN AfterFetch(issues[1], worklogsPerIssue')
               ELSE UNCHANGED <<pc, worklogs, entries, stdout, stderr>>
     ELSE UNCHANGED <<pc, worklogsPerIssue, worklogs, entries, stdout, stderr>>
  /\ UNCHANGED <<variant, mode, fromDate, toDate, issues, throttleReady, file>>
  /\ UNCHANGED periodVars

\* A fetch fails. The first failure rejects Promise.all at once: the await
\* throws, the function is left (the values of the fetches already resolved
\* are dropped) and its rejection is not handled.
FetchReject(i) ==
  /\ fetchState[i] = "pending"
  /\ fetchState' = [fetchState EXCEPT ![i] = "failed"]
  /\ IF pc = "fetch"
     THEN /\ pc' = "failed"
          /\ stderr' = stderr + 1
          /\ worklogsPerIssue' = [j \in 1..Len(worklogsPerIssue) |-> <<>>]
     ELSE UNCHANGED <<pc, stderr, worklogsPerIssue>>
  /\ UNCHANGED <<variant, mode, fromDate, toDate, issues, throttleReady,
                 worklogs, entries, stdout, file>>
  /\ UNCHANGED periodVars

\* The callback of generatePdf: on an error it logs and returns, otherwise
\* it calls fs.writeFile. getMyWorklogsForPeriod has returned: its locals
\* are gone.
PdfCallback ==
  /\ pc = "pdf"
  /\ \E err \in BOOLEAN :
       IF err THEN pc' = "renderFailed" /\ stderr' = stderr + 1
       ELSE pc' = "write" /\ UNCHANGED stderr
  /\ worklogsPerIssue' = <<>>
  /\ worklogs' = <<>>
  /\ UNCHANGED <<variant, mode, fromDate, toDate, issues, fetchState, throttleReady,
                 entries, stdout, file>>
  /\ UNCHANGED periodVars

\* The callback of fs.writeFile. A failed write leaves no file or a
\* truncated one.
WriteCallback ==
  /\ pc = "write"
  /\ \E err \in BOOLEAN :
       IF err
       THEN /\ pc' = "writeFailed"
            /\ stderr' = stderr + 1
            /\ file' \in {Absent, Some(<<>>)}
       ELSE /\ pc' = "done"
            /\ file' = Some(RenderTable(entries[1]))
            /\ UNCHANGED stderr
  /\ UNCHANGED <<variant, mode, fromDate, toDate, issues, fetchState, throttleReady,
                 worklogsPerIssue, worklogs, entries, stdout>>
  /\ UNCHANGED periodVars

\* Every step but the resolution of a fetch.
Scheduling ==
  \/ SearchResolve
  \/ SearchReject
  \/ \E i \in 1..Len(fetchState) : FetchStart(i)
  \/ IntervalElapsed
  \/ \E i \in 1..Len(fetchState) : FetchReject(i)
  \/ PdfCallback
  \/ WriteCallback

Next ==
  \/ Scheduling
  \/ \E i \in 1..Len(fetchState) : FetchResolve(i, TimedRecords(i, fromDate))

\* Reports over worklogs that differ in their start and their duration.
Spec == Init /\ [][Next]_vars

NextAuthored ==
  \/ Scheduling
  \/ \E i \in 1..Len(fetchState) : FetchResolve(i, AuthoredRecords(i, fromDate))

\* Reports over worklogs that differ in their author and their issue id.
SpecAuthored == Init /\ [][NextAuthored]_vars

NextCommented ==
  \/ Scheduling
  \/ \E i \in 1..Len(fetchState) : FetchResolve(i, CommentedRecords(i, fromDate))

\* Reports over worklogs that differ in their optional fields.
SpecCommented == Init /\ [][NextCommented]_vars

(***************************************************************************)
(* Selection of the report period (part_000, lines 135 to 154).            *)
(* A Date is its local calendar date [year, month, date], month 0 to 11;   *)
(* the time of day is midnight once setHours(0, 0, 0, 0) has run.          *)
(***************************************************************************)
IsLeapYear(y) == (y % 4 = 0 /\ y % 100 # 0) \/ y % 400 = 0

DaysInMonth(y, m) ==
  IF m = 1 THEN (IF IsLeapYear(y) THEN 29 ELSE 28)
  ELSE IF m \in {3, 5, 8, 10} THEN 30 ELSE 31

\* The date that year, month and date denote once the Date has brought them
\* in range: months outside 0..11 move the year, dates outside the month
\* move the month.
RECURSIVE MakeDate(_, _, _)
MakeDate(y, m, d) ==
  IF m < 0 THEN MakeDate(y - 1, m + 12, d)
  ELSE IF m > 11 THEN MakeDate(y + 1, m - 12, d)
  ELSE IF d < 1
       THEN IF m = 0 THEN MakeDate(y - 1, 11, d + DaysInMonth(y - 1, 11))
            ELSE MakeDate(y, m - 1, d + DaysInMonth(y, m - 1))
  ELSE IF d > DaysInMonth(y, m) THEN MakeDate(y, m + 1, d - DaysInMonth(y, m))
  ELSE [year |-> y, month |-> m, date |-> d]

setDate(date, d) == MakeDate(date.year, date.month, d)

setMonth(date, m) == MakeDate(date.year, m, date.date)

\* Mutant of getLastDayOfMonth: setDate(0) without moving to the next month.
getLastDayOfMonthNoRoll(date) == setDate(date, 0)

getLastDayOfMonth(date) == setDate(setMonth(date, date.month + 1), 0)

\* date.toJSON().split('T')[0] of local midnight: the UTC date, which is the
\* day before when the machine is east of UTC.
ToJSONDay(date, offset) ==
  IF offset > 0 THEN setDate(date, date.date - 1) ELSE date

\* The days of invocation explored.
InvocationDates ==
  { [year |-> 2023 + k, month |-> m, date |-> d] :
      k \in 0..(MaxYears - 1), m \in 0..11, d \in 1..31 }

InitPeriod ==
  /\ currentDate \in {x \in InvocationDates : x.date <= DaysInMonth(x.year, x.month)}
  /\ tzOffset \in {-5, 0, 1}
  /\ firstDayOfCurrentMonth = NoDate
  /\ firstDayOfPreviousMonth = NoDate
  /\ reportDateStart = NoDate
  /\ reportDateEnd = NoDate
  /\ worklogDateRange = <<>>
  /\ variant = "doc"
  /\ mode = "DailySummary"
  /\ fromDate = 0
  /\ toDate = Absent
  /\ pc = "load"
  /\ issues = Absent
  /\ fetchState = <<>>
  /\ throttleReady = TRUE
  /\ worklogsPerIssue = <<>>
  /\ worklogs = <<>>
  /\ entries = Absent
  /\ stdout = <<>>
  /\ stderr = 0
  /\ file = Absent

\* Module load: the first days of the current and of the previous month.
ModuleLoad ==
  /\ pc = "load"
  /\ firstDayOfCurrentMonth' = setDate(currentDate, 1)
  /\ firstDayOfPreviousMonth' =
       setMonth(firstDayOfCurrentMonth', firstDayOfCurrentMonth'.month - 1)
  /\ pc' = "select"
  /\ UNCHANGED <<currentDate, tzOffset, reportDateStart, reportDateEnd, worklogDateRange>>
  /\ UNCHANGED <<variant, mode, fromDate, toDate, issues, fetchState, throttleReady,
                 worklogsPerIssue, worklogs, entries, stdout, stderr, file>>

\* The entry point chooses the period.
SelectPeriod ==
  /\ pc = "select"
  /\ reportDateStart' = IF currentDate.date > 15 THEN firstDayOfCurrentMonth
                        ELSE firstDayOfPreviousMonth
  /\ reportDateEnd' = getLastDayOfMonth(reportDateStart')
  /\ pc' = "query"
  /\ UNCHANGED <<currentDate, tzOffset, firstDayOfCurrentMonth,
                 firstDayOfPreviousMonth, worklogDateRange>>
  /\ UNCHANGED <<variant, mode, fromDate, toDate, issues, fetchState, throttleReady,
                 worklogsPerIssue, worklogs, entries, stdout, stderr, file>>

\* getMyWorklogsForPeriod writes the two dates into the query.
BuildQuery ==
  /\ pc = "query"
  /\ worklogDateRange' = <<ToJSONDay(reportDateStart, tzOffset),
                           ToJSONDay(reportDateEnd, tzOffset)>>
  /\ pc' = "queried"
  /\ UNCHANGED <<currentDate, tzOffset, firstDayOfCurrentMonth,
                 firstDayOfPreviousMonth, reportDateStart, reportDateEnd>>
  /\ UNCHANGED <<variant, mode, fromDate, toDate, issues, fetchState, throttleReady,
                 worklogsPerIssue, worklogs, entries, stdout, stderr, file>>

NextPeriod == ModuleLoad \/ SelectPeriod \/ BuildQuery

\* The selection of the period for every day of invocation.
SpecPeriod == InitPeriod /\ [][NextPeriod]_vars

(***************************************************************************)
(* Reading a report back.                                                  *)
(***************************************************************************)
IndexOf(chars, c) ==
  IF \E i \in 1..Len(chars) : chars[i] = c
  THEN CHOOSE i \in 1..Len(chars) :
         chars[i] = c /\ \A j \in 1..(i - 1) : chars[j] # c
  ELSE 0

RECURSIVE DigitsToNat(_)
DigitsToNat(chars) ==
  IF chars = <<>> THEN 0
  ELSE DigitsToNat(SubSeq(chars, 1, Len(chars) - 1)) * 10
       + DigitValue(chars[Len(chars)])

FractionQuarters(chars) ==
  CASE chars = <<>> -> 0
    [] chars = <<"2", "5">> -> 1
    [] chars = <<"5">> -> 2
    [] chars = <<"7", "5">> -> 3

\* The number of hours (in quarters) written with a decimal comma.
ParseHours(chars) ==
  LET k == IndexOf(chars, ",")
  IN IF k = 0 THEN 4 * DigitsToNat(chars)
     ELSE 4 * DigitsToNat(SubSeq(chars, 1, k - 1))
          + FractionQuarters(SubSeq(chars, k + 1, Len(chars)))

\* The hours a cell shows: a number, or a text with a decimal comma.
CellHours(cell) ==
  IF cell.type = "number" THEN cell.value ELSE ParseHours(cell.chars)

\* The day of the month a date text names.
ParseDay(chars) == DigitsToNat(SubSeq(chars, 2, 3))

IsHeaderRow(row) == row[1] = Lit("Date")

IsTotalRow(row) == row[1] = Lit("Total")

HoursColumn(m) == IF m = "Detailed" THEN 3 ELSE 2

\* The function has normalized the records and its locals are still there.
Fresh ==
  /\ issues # Absent
  /\ \/ variant = "text" /\ pc = "done"
     \/ variant = "doc" /\ pc = "pdf"

\* The data rows of the report just made.
DataRows ==
  IF variant = "text" THEN SubSeq(stdout, 2, Len(stdout))
  ELSE SubSeq(entries[1], 2, Len(entries[1]) - 1)

\* A header row, data rows, one trailing total row whose hours are the sum
\* of the hours of the data rows.
WellFormed(report, m) ==
  /\ Len(report) >= 2
  /\ IsHeaderRow(report[1])
  /\ IsTotalRow(report[Len(report)])
  /\ \A i \in 2..(Len(report) - 1) :
       ~IsHeaderRow(report[i]) /\ ~IsTotalRow(report[i])
  /\ CellHours(report[Len(report)][HoursColumn(m)])
       = SumSeq([i \in 1..(Len(report) - 2) |->
                   CellHours(report[i + 1][HoursColumn(m)])])

DaysOf(ws) == { DateString(ws[i].started) : i \in 1..Len(ws) }

HoursOfDay(ws, day) ==
  SumSeq([i \in 1..Len(ws) |->
            IF DateString(ws[i].started) = day THEN ws[i].timeSpentInHours ELSE 0])

RECURSIVE KeysOfDay(_, _)
KeysOfDay(ws, day) ==
  IF ws = <<>> THEN <<>>
  ELSE IF DateString(ws[Len(ws)].started) = day
       THEN Append(KeysOfDay(SubSeq(ws, 1, Len(ws) - 1), day), ws[Len(ws)].issue)
       ELSE KeysOfDay(SubSeq(ws, 1, Len(ws) - 1), day)

RECURSIVE FirstSeen(_)
FirstSeen(keys) ==
  IF keys = <<>> THEN <<>>
  ELSE LET front == SubSeq(keys, 1, Len(keys) - 1)
       IN IF Contains(front, keys[Len(keys)]) THEN FirstSeen(front)
          ELSE Append(FirstSeen(front), keys[Len(keys)])

NoDuplicates(keys) ==
  \A i \in 1..Len(keys) : \A j \in 1..Len(keys) : i # j => keys[i] # keys[j]

C2_DailyFold ==
  (Fresh /\ mode = "DailySummary") =>
    LET fold == DailyFold(<<>>, worklogs)
    IN /\ Len(fold) = Cardinality(DaysOf(worklogs))
       /\ { fold[i].day : i \in 1..Len(fold) } = DaysOf(worklogs)
       /\ \A i \in 1..Len(fold) :
            /\ fold[i].timeSpentInHours = HoursOfDay(worklogs, fold[i].day)
            /\ NoDuplicates(fold[i].issues)
            /\ fold[i].issues = FirstSeen(KeysOfDay(worklogs, fold[i].day))
       /\ SumSeq([i \in 1..Len(fold) |-> fold[i].timeSpentInHours])
            = SumSeq([i \in 1..Len(worklogs) |-> worklogs[i].timeSpentInHours])
       /\ DataRows = [i \in 1..Len(fold) |->
                        <<Str(fold[i].day), Num(fold[i].timeSpentInHours),
                          Str(Join(fold[i].issues))>>]

\* Three entries on one day, on two issues: a key met again is not listed
\* twice.
C2_Witness ==
  /\ Fresh
  /\ mode = "DailySummary"
  /\ Len(worklogs) = 3
  /\ Len(DataRows) = 1
  /\ Len(FirstSeen(KeysOfDay(worklogs, DateString(worklogs[1].started)))) = 2
  /\ CellHours(DataRows[1][2]) > 3

(***************************************************************************)
(* C3. In daily-summary mode the data rows are in ascending day order,     *)
(* whatever records the service returns.                                   *)
(***************************************************************************)
C3_DaysAscending ==
  (Fresh /\ mode = "DailySummary") =>
    \A i \in 1..Len(DataRows) : \A j \in 1..Len(DataRows) :
      i < j => ParseDay(DataRows[i][1].chars) < ParseDay(DataRows[j][1].chars)

(***************************************************************************)
(* C4. After normalization the entries are in non-decreasing order of the  *)
(* instant their started denotes, whatever the order in which the fetches  *)
(* complete and the order of the records in each response.                 *)
(***************************************************************************)
C4_SortedByStarted ==
  Fresh =>
    \A i \in 1..Len(worklogs) : \A j \in 1..Len(worklogs) :
      i < j => Instant(worklogs[i].started) <= Instant(worklogs[j].started)

\* The records arrived out of order, over two responses.
C4_Witness ==
  /\ Fresh
  /\ Len(worklogsPerIssue) = 2
  /\ worklogsPerIssue[1] # <<>>
  /\ worklogsPerIssue[2] # <<>>
  /\ Instant(worklogsPerIssue[1][1].started) > Instant(worklogsPerIssue[2][1].started)
  /\ Len(worklogs) = 3

(***************************************************************************)
(* C10. Every data row of the report of getMyWorklogsForPeriod comes from  *)
(* a worklog started within the period: not before fromDate and not after  *)
(* the day of toDate.                                                      *)
(***************************************************************************)
C10_RowsWithinPeriod ==
  (Fresh /\ variant = "doc") =>
    \A i \in 1..Len(worklogs) :
      /\ fromDate <= Instant(worklogs[i].started)
      /\ Instant(worklogs[i].started) < toDate[1] + 24

(***************************************************************************)
(* C5. Every normalized entry comes from a raw record whose author email   *)
(* is the configured email: the entries are as many as these records and   *)
(* each carries the key of the issue its record names. Records of other    *)
(* authors, or without author, are dropped without an error, also when     *)
(* their issue id is not in the map: once all fetches have resolved the    *)
(* run fails only if a record of the user does not resolve.                *)
(***************************************************************************)
AllRecords(responses) == Flat(responses)

IsOfUser(record) ==
  /\ record.author # Absent
  /\ record.author[1].emailAddress # Absent
  /\ record.author[1].emailAddress[1] = email

CountOfUser(records) ==
  Cardinality({ i \in 1..Len(records) : IsOfUser(records[i]) })

EveryFetchOk == \A i \in 1..Len(fetchState) : fetchState[i] = "ok"

Joined == issues # Absent /\ pc # "fetch" /\ pc # "search" /\ EveryFetchOk

C5_OnlyOwnRecords ==
  /\ Fresh =>
       /\ Len(worklogs) = CountOfUser(AllRecords(worklogsPerIssue))
       /\ \A e \in 1..Len(worklogs) :
            \E r \in 1..Len(AllRecords(worklogsPerIssue)) :
              LET record == AllRecords(worklogsPerIssue)[r]
              IN /\ IsOfUser(record)
                 /\ record.started = worklogs[e].started
                 /\ \E i \in 1..Len(issues[1]) :
                      /\ issues[1][i].id = record.issueId
                      /\ issues[1][i].key = worklogs[e].issue
  /\ (Joined /\ pc = "failed") =>
       \E r \in 1..Len(AllRecords(worklogsPerIssue)) :
         /\ IsOfUser(AllRecords(worklogsPerIssue)[r])
         /\ AllRecords(worklogsPerIssue)[r].issueId = UnknownIssueId

\* A report made although a record of another author names an unknown
\* issue and a record has no author at all.
C5_Witness ==
  /\ Fresh
  /\ Len(worklogs) = 1
  /\ \E r \in 1..Len(AllRecords(worklogsPerIssue)) :
       /\ ~IsOfUser(AllRecords(worklogsPerIssue)[r])
       /\ AllRecords(worklogsPerIssue)[r].issueId = UnknownIssueId
  /\ \E r \in 1..Len(AllRecords(worklogsPerIssue)) :
       AllRecords(worklogsPerIssue)[r].author = Absent

(***************************************************************************)
(* C7. The pipeline leaves the fetch phase, to normalization or to the     *)
(* failure outcome, only after every scheduled fetch has resolved or       *)
(* failed: none is pending or not yet started. This is the claim as        *)
(* stated; it fails.                                                       *)
(***************************************************************************)
C7_LeavesAfterAllSettled ==
  (pc # "search" /\ pc # "fetch") =>
    \A i \in 1..Len(fetchState) : fetchState[i] \in {"ok", "failed"}

(***************************************************************************)
(* C7, amended. The pipeline goes on to normalization only after every     *)
(* scheduled fetch has resolved with success; it leaves the fetch phase    *)
(* for the failure outcome with the first fetch that fails, while other    *)
(* fetches may be pending or not yet started.                              *)
(***************************************************************************)
C7_NormalizesAfterAllResolved ==
  /\ (pc \in {"pdf", "write", "done", "renderFailed", "writeFailed"}) => EveryFetchOk
  /\ (worklogs # <<>> \/ entries # Absent \/ stdout # <<>>) => EveryFetchOk
  /\ (pc = "failed" /\ issues # Absent) =>
       \/ \E i \in 1..Len(fetchState) : fetchState[i] = "failed"
       \/ EveryFetchOk
  /\ (pc = "fetch") =>
       /\ \A i \in 1..Len(fetchState) : fetchState[i] # "failed"
       /\ ~EveryFetchOk

\* Two fetches were scheduled, both have resolved, and the report is made.
C7_Witness ==
  /\ Fresh
  /\ Len(fetchState) = 2
  /\ EveryFetchOk
  /\ worklogs # <<>>

(***************************************************************************)
(* C8. No partial report: when a fetch fails, when a retained record does  *)
(* not resolve or when the document backend reports an error, nothing is   *)
(* printed and no file is written; output exists only in runs in which     *)
(* every fetch succeeded and every retained record resolved.               *)
(***************************************************************************)
NoOutput == stdout = <<>> /\ file = Absent

C8_NoPartialReport ==
  /\ (\E i \in 1..Len(fetchState) : fetchState[i] = "failed") => NoOutput
  /\ (issues # Absent /\ NormalizeThrows(issues[1], worklogsPerIssue)) => NoOutput
  /\ pc \in {"failed", "renderFailed"} => NoOutput
  /\ ~NoOutput =>
       /\ pc \in {"done", "writeFailed"}
       /\ EveryFetchOk
       /\ issues # Absent => ~NormalizeThrows(issues[1], worklogsPerIssue)
  /\ (variant = "text" /\ stdout # <<>>) =>
       /\ IsHeaderRow(stdout[1])
       /\ Len(stdout) = 1 + Len(DataRows)
       /\ Len(DataRows) = (IF mode = "Detailed" THEN Len(worklogs)
                           ELSE Cardinality(DaysOf(worklogs)))

\* All fetches resolved, a record of the user names an unknown issue: the
\* run has failed and printed nothing.
C8_Witness ==
  /\ pc = "failed"
  /\ variant = "text"
  /\ issues # Absent
  /\ Len(fetchState) = 2
  /\ EveryFetchOk
  /\ NormalizeThrows(issues[1], worklogsPerIssue)
  /\ NoOutput

(***************************************************************************)
(* C9. In both entry points the comment of every normalized entry is a     *)
(* string: empty when the record has no comment, otherwise the texts of    *)
(* the comment tree, each node after its children, the children in order.  *)
(***************************************************************************)
RECURSIVE TextsChildrenFirst(_)
TextsChildrenFirst(node) ==
  LET children == IF node.content = <<>> THEN <<>> ELSE node.content[1]
  IN Flat([i \in 1..Len(children) |-> TextsChildrenFirst(children[i])])
     \o (IF node.text = <<>> THEN <<>> ELSE <<node.text[1]>>)

ExpectedComment(record) ==
  IF record.comment = <<>> THEN <<>>
  ELSE Flat(TextsChildrenFirst(record.comment[1]))

Count(seq, x) == Cardinality({ i \in 1..Len(seq) : seq[i] = x })

C9_CommentIsFlattenedString ==
  Fresh =>
    LET records == AllRecords(worklogsPerIssue)
        expected == [r \in 1..Len(records) |-> ExpectedComment(records[r])]
    IN /\ \A e \in 1..Len(worklogs) : worklogs[e].comment.type = "string"
       /\ Len(worklogs) = Len(records)
       /\ \A r \in 1..Len(records) :
            Count([e \in 1..Len(worklogs) |-> worklogs[e].comment.chars], expected[r])
              = Count(expected, expected[r])

(***************************************************************************)
(* C6. On the 16th or later the period runs from the 1st of the current    *)
(* month to the day of invocation; on the 15th or earlier from the first   *)
(* to the last day of the previous month. This is the claim as stated; it  *)
(* fails.                                                                  *)
(***************************************************************************)
PreviousMonth(date) ==
  IF date.month = 0 THEN [year |-> date.year - 1, month |-> 11]
  ELSE [year |-> date.year, month |-> date.month - 1]

FirstOf(ym) == [year |-> ym.year, month |-> ym.month, date |-> 1]

LastOf(ym) ==
  [year |-> ym.year, month |-> ym.month, date |-> DaysInMonth(ym.year, ym.month)]

C6_PeriodToToday ==
  pc = "queried" =>
    IF currentDate.date >= 16
    THEN /\ reportDateStart = FirstOf(currentDate)
         /\ reportDateEnd = currentDate
    ELSE /\ reportDateStart = FirstOf(PreviousMonth(currentDate))
         /\ reportDateEnd = LastOf(PreviousMonth(currentDate))

(***************************************************************************)
(* C6, amended. On the 16th or later the period runs from the first to     *)
(* the last day of the current month; on the 15th or earlier from the      *)
(* first to the last day of the previous month, for every month length     *)
(* and for an invocation in January. The dates are those of the local      *)
(* calendar.                                                               *)
(***************************************************************************)
C6_PeriodWholeMonth ==
  pc \in {"query", "queried"} =>
    IF currentDate.date >= 16
    THEN /\ reportDateStart = FirstOf(currentDate)
         /\ reportDateEnd = LastOf(currentDate)
    ELSE /\ reportDateStart = FirstOf(PreviousMonth(currentDate))
         /\ reportDateEnd = LastOf(PreviousMonth(currentDate))

\* Invoked on 15 January 2024: the period is December 2023.
C6_Witness ==
  /\ pc = "queried"
  /\ currentDate = [year |-> 2024, month |-> 0, date |-> 15]
  /\ reportDateStart = [year |-> 2023, month |-> 11, date |-> 1]
  /\ reportDateEnd = [year |-> 2023, month |-> 11, date |-> 31]

====
